---- MODULE Spec2Model ----
(***************************************************************************)
(* A model of the in-memory result table (src/engine/ResultTable.h) and of *)
(* the leaf expression node (src/engine/sparqlExpressions/                 *)
(* LiteralExpression.h) of the query engine.                               *)
(*                                                                         *)
(* The state machines that share the module:                               *)
(*   - the completion latch of a ResultTable (finish / isFinished /        *)
(*     awaitFinished), one step per statement, under SpecLatch/FairLatch;  *)
(*   - the value operations of ResultTable (swap, the assignments, the     *)
(*     move constructor, clear, getDataAsVarSize) under SpecTable and      *)
(*     SpecData;                                                           *)
(*   - the lock-free cache slot of LiteralExpression::evaluate and the     *)
(*     variable resolution of evaluateIfVariable under SpecCache/SpecAlias;*)
(*   - the pure functions getCacheKey, RegexValueGetter and makeNumericId  *)
(*     (sparqlExpressions/SparqlExpressionValueGetters.h), each applied    *)
(*     once to an input, under SpecKey, SpecRegex and SpecNumeric.         *)
(***************************************************************************)
EXTENDS Integers, Sequences, FiniteSets, TLC

VARIABLES
  tab,          \* per table object: the data members of ResultTable
  heap,         \* the blocks _fixedSizeData may point to
  mutex,        \* per table object: the holder of _cond_var_m, 0 when free
  pc,           \* per thread: the statement it is at
  obj,          \* per thread: the table object its current call is on
  tmp,          \* per thread: the local `tmp` of isFinished
  after,        \* per thread: its isFinished call began after a finish returned
  finishCalled, \* per table: some finish call has begun
  finishRet,    \* per table: some finish call has returned
  res,          \* per table: the last result of getDataAsVarSize
  node,         \* the LiteralExpression: its kind and its _value
  slot,         \* cachedResult_: the address of the cached IdOrString, or NULL
  cell,         \* the IdOrString objects allocated for the cache slot
  epc,          \* per thread: the statement of evaluate it is at
  loc,          \* per thread: the locals of its evaluate call and its outcome
  cancelled,    \* the cancellation signal of the evaluation context
  destroyed,    \* the node's destructor has run
  ctx,          \* the EvaluationContext of a variable's evaluation
  vexpr,        \* the variable expression: its _value, and whether it is
                \* inside an aggregate
  vpc,          \* where the evaluation of the variable expression is
  cur,          \* the `variable` argument of the current evaluateIfVariable
  depth,        \* the number of recursive calls made so far
  vres,         \* the ExpressionResult the evaluation returned
  lit,          \* the LiteralExpression<T> getCacheKey is called on
  varColMap,    \* the VariableToColumnMap passed to getCacheKey
  cacheKey,     \* the outcome of getCacheKey
  input,        \* the input of RegexValueGetter
  regex,        \* the outcome of RegexValueGetter
  numArg,       \* the argument and the NanToUndef flag of makeNumericId
  numId         \* the Id makeNumericId returned

tableVars == <<tab, heap, mutex, pc, obj, tmp, after, finishCalled, finishRet, res>>
cacheVars == <<node, slot, cell, epc, loc, cancelled, destroyed>>

varVars == <<ctx, vexpr, vpc, cur, depth, vres>>

getterVars == <<lit, varColMap, cacheKey, input, regex, numArg, numId>>

vars == <<tableVars, cacheVars, varVars, getterVars>>

-----------------------------------------------------------------------------
(* Bounds of the model.                                                    *)

NThreads == 2
NumIds == 2
NVars == 3
MaxRows == 2
MaxAddr == 3
MaxLen == 3
MaxInt == 4

(* enum Status { FINISHED = 0, OTHER = 1 } *)
FINISHED == 0
StatusOTHER == 1

(* The arities getDataAsVarSize expands. *)
MaxFixedCols == 5

NULL == 0

Threads == 1..NThreads
Owner == CHOOSE t \in Threads : \A u \in Threads : t <= u
Tables == {"a", "b"}
Addr == 1..MaxAddr
Ids == 0..(NumIds - 1)
Vars == 1..NVars

-----------------------------------------------------------------------------
(* Values of expressions.                                                  *)

\* IdOrString: an Id or an owned string.
IdValue(i) == [kind |-> "Id", id |-> i, str |-> ""]
StringValue(str) == [kind |-> "String", id |-> 0, str |-> str]
NoValue == [kind |-> "none", id |-> 0, str |-> ""]
\* What a read of memory that holds no constructed IdOrString may yield.
Garbage == [kind |-> "garbage", id |-> 0, str |-> ""]

\* An IdOrString object on the heap: who allocated it, whose exchange took it
\* out of the slot, who deleted it, and how often it was deleted.
NoCell ==
  [state |-> "unused", val |-> NoValue, by |-> 0, displacedBy |-> 0,
   freedBy |-> 0, frees |-> 0]

\* The locals of one evaluate call: the pointer it loaded, `result`,
\* `ptrForCache`, what its read of the cache found, how the call ended and
\* the value it returned.
NoLocals ==
  [ptr |-> NULL, result |-> NoValue, ptrForCache |-> NULL, observed |-> "none",
   outcome |-> "none", ret |-> NoValue]

-----------------------------------------------------------------------------
(* Data of a table.                                                        *)

\* A row of width k; its entries differ from column to column.
Row(k, base) == [j \in 1..k |-> (base + j - 1) % NumIds]

Rows(k) == {Row(k, b) : b \in Ids}

RECURSIVE SeqsUpTo(_, _)
SeqsUpTo(S, n) ==
  IF n = 0 THEN {<<>>}
  ELSE LET shorter == SeqsUpTo(S, n - 1)
       IN shorter \cup {Append(s, x) : s \in {q \in shorter : Len(q) = n - 1}, x \in S}

RowSeqs(k, n) == SeqsUpTo(Rows(k), n)

\* A block of the heap: a vector<array<Id, width>>, or no live block.
NoBlock == [live |-> FALSE, width |-> 0, rows |-> <<>>]
Block(k, R) == [live |-> TRUE, width |-> k, rows |-> R]

NoResult == [state |-> "none", rows |-> <<>>]

\* The members the constructors initialise (status OTHER, no storage).
DefaultTable ==
  [status |-> StatusOTHER, nofColumns |-> 0, sortedBy |-> 0,
   varSizeData |-> <<>>, fixedSizeData |-> NULL, resultTypes |-> <<>>]

\* A table of k columns whose rows live in the fixed-width block at address p.
FixedTable(k, p, sortedBy, types) ==
  [status |-> StatusOTHER, nofColumns |-> k, sortedBy |-> sortedBy,
   varSizeData |-> <<>>, fixedSizeData |-> p, resultTypes |-> types]

\* A table of k columns whose rows R live in _varSizeData.
VarTable(k, R, sortedBy, types) ==
  [status |-> StatusOTHER, nofColumns |-> k, sortedBy |-> sortedBy,
   varSizeData |-> R, fixedSizeData |-> NULL, resultTypes |-> types]

-----------------------------------------------------------------------------
(* The initial state of each part of the model when it is at rest.         *)

\* Two tables as the default constructor leaves them.
InitNoTables ==
  /\ tab = [x \in Tables |-> DefaultTable]
  /\ heap = [p \in Addr |-> NoBlock]

\* No thread is inside a call on a table.
InitThreads ==
  /\ mutex = [x \in Tables |-> 0]
  /\ pc = [t \in Threads |-> "idle"]
  /\ obj = [t \in Threads |-> "a"]
  /\ tmp = [t \in Threads |-> FALSE]
  /\ after = [t \in Threads |-> FALSE]
  /\ finishCalled = [x \in Tables |-> FALSE]
  /\ finishRet = [x \in Tables |-> FALSE]
  /\ res = [x \in Tables |-> NoResult]

\* A node that no thread evaluates.
InitNoCache ==
  /\ node = [kind |-> "string", value |-> "<x>"]
  /\ slot = NULL
  /\ cell = [a \in 1..NThreads |-> NoCell]
  /\ epc = [t \in Threads |-> "idle"]
  /\ loc = [t \in Threads |-> NoLocals]
  /\ cancelled = FALSE
  /\ destroyed = FALSE

\* No variable expression is evaluated.
InitNoVar ==
  /\ ctx = [prev |-> [v \in Vars |-> NoValue], groupedVariables |-> {},
            inputTable |-> <<>>, beginIndex |-> 0, endIndex |-> 0,
            assertsOn |-> TRUE]
  /\ vexpr = [value |-> 1, insideAggregate |-> FALSE]
  /\ vpc = "idle"
  /\ cur = 1
  /\ depth = 0
  /\ vres = NoValue

\* getCacheKey has not been called / has returned a key / has thrown.
NoKey == [kind |-> "none", parts |-> <<>>]
Key(parts) == [kind |-> "key", parts |-> parts]
Thrown(what) == [kind |-> "exception", parts |-> <<what>>]

\* RegexValueGetter has not been called.
NoRegex == [kind |-> "none", pattern |-> <<>>, ok |-> FALSE]

\* makeNumericId has not been called.
NoId == [datatype |-> "none", value |-> 0]

\* No getter and no getCacheKey is called.
InitNoGetters ==
  /\ lit = [T |-> "string", value |-> ""]
  /\ varColMap = <<>>
  /\ cacheKey = NoKey
  /\ input = [type |-> "string", holds |-> "string", value |-> <<>>]
  /\ regex = NoRegex
  /\ numArg = [NanToUndef |-> FALSE, T |-> "Id", value |-> NoId]
  /\ numId = NoId

-----------------------------------------------------------------------------
(* The completion latch: finish, isFinished, awaitFinished.                *)

Idle(t) == pc[t] = "idle"
AllIdle == \A t \in Threads : Idle(t)

Goto(t, l) == pc' = [pc EXCEPT ![t] = l]

LatchFrame == UNCHANGED <<heap, res>> /\ UNCHANGED <<cacheVars, varVars, getterVars>>

\* lock_guard / unique_lock constructor: blocks until the mutex is free.
Lock(t, from, to) ==
  /\ pc[t] = from
  /\ mutex[obj[t]] = 0
  /\ mutex' = [mutex EXCEPT ![obj[t]] = t]
  /\ Goto(t, to)

\* The destructor of the lock at the end of the call.
Unlock(t, from) ==
  /\ pc[t] = from
  /\ mutex' = [mutex EXCEPT ![obj[t]] = 0]
  /\ Goto(t, "idle")

\* A thread begins finish() on table x.
finishBegin(t, x) ==
  /\ Idle(t)
  /\ Goto(t, "f_lock")
  /\ obj' = [obj EXCEPT ![t] = x]
  /\ finishCalled' = [finishCalled EXCEPT ![x] = TRUE]
  /\ UNCHANGED <<tab, mutex, tmp, after, finishRet>>
  /\ LatchFrame

finishLock(t) ==
  /\ Lock(t, "f_lock", "f_set")
  /\ UNCHANGED <<tab, obj, tmp, after, finishCalled, finishRet>>
  /\ LatchFrame

\* _status = ResultTable::FINISHED;
finishSetStrict(t) ==
  /\ pc[t] = "f_set"
  /\ IF tab[obj[t]].status = FINISHED
       THEN Goto(t, "error") /\ UNCHANGED tab
       ELSE Goto(t, "f_notify") /\ tab' = [tab EXCEPT ![obj[t]].status = FINISHED]
  /\ UNCHANGED <<mutex, obj, tmp, after, finishCalled, finishRet>>
  /\ LatchFrame

finishSetNoStore(t) ==
  /\ pc[t] = "f_set"
  /\ Goto(t, "f_notify")
  /\ UNCHANGED <<tab, mutex, obj, tmp, after, finishCalled, finishRet>>
  /\ LatchFrame

finishSet(t) ==
  /\ pc[t] = "f_set"
  /\ tab' = [tab EXCEPT ![obj[t]].status = FINISHED]
  /\ Goto(t, "f_notify")
  /\ UNCHANGED <<mutex, obj, tmp, after, finishCalled, finishRet>>
  /\ LatchFrame

\* _cond_var.notify_all(): every thread blocked in wait on this table wakes
\* and goes on to reacquire the mutex.
finishNotifyNone(t) ==
  /\ pc[t] = "f_notify"
  /\ Goto(t, "f_unlock")
  /\ UNCHANGED <<tab, mutex, obj, tmp, after, finishCalled, finishRet>>
  /\ LatchFrame

finishNotify(t) ==
  /\ pc[t] = "f_notify"
  /\ pc' = [u \in Threads |->
              IF u = t THEN "f_unlock"
              ELSE IF pc[u] = "a_wait" /\ obj[u] = obj[t] THEN "a_relock"
              ELSE pc[u]]
  /\ UNCHANGED <<tab, mutex, obj, tmp, after, finishCalled, finishRet>>
  /\ LatchFrame

\* The lock_guard is released and finish returns.
finishReturn(t) ==
  /\ Unlock(t, "f_unlock")
  /\ finishRet' = [finishRet EXCEPT ![obj[t]] = TRUE]
  /\ UNCHANGED <<tab, obj, tmp, after, finishCalled>>
  /\ LatchFrame

\* A thread begins isFinished() on table x.
isFinishedBegin(t, x) ==
  /\ Idle(t)
  /\ Goto(t, "i_lock")
  /\ obj' = [obj EXCEPT ![t] = x]
  /\ after' = [after EXCEPT ![t] = finishRet[x]]
  /\ UNCHANGED <<tab, mutex, tmp, finishCalled, finishRet>>
  /\ LatchFrame

isFinishedLock(t) ==
  /\ Lock(t, "i_lock", "i_read")
  /\ UNCHANGED <<tab, obj, tmp, after, finishCalled, finishRet>>
  /\ LatchFrame

\* bool tmp = _status == ResultTable::FINISHED;
isFinishedRead(t) ==
  /\ pc[t] = "i_read"
  /\ tmp' = [tmp EXCEPT ![t] = (tab[obj[t]].status = FINISHED)]
  /\ Goto(t, "i_ret")
  /\ UNCHANGED <<tab, mutex, obj, after, finishCalled, finishRet>>
  /\ LatchFrame

\* return tmp; the lock_guard is released.
isFinishedReturn(t) ==
  /\ Unlock(t, "i_ret")
  /\ tmp' = [tmp EXCEPT ![t] = FALSE]
  /\ after' = [after EXCEPT ![t] = FALSE]
  /\ UNCHANGED <<tab, obj, finishCalled, finishRet>>
  /\ LatchFrame

\* A thread begins awaitFinished() on table x.
awaitBegin(t, x) ==
  /\ Idle(t)
  /\ Goto(t, "a_lock")
  /\ obj' = [obj EXCEPT ![t] = x]
  /\ UNCHANGED <<tab, mutex, tmp, after, finishCalled, finishRet>>
  /\ LatchFrame

awaitLock(t) ==
  /\ Lock(t, "a_lock", "a_check")
  /\ UNCHANGED <<tab, obj, tmp, after, finishCalled, finishRet>>
  /\ LatchFrame

\* _cond_var.wait(lk, pred) is  while (!pred()) wait(lk);  the predicate is
\* evaluated with the mutex held, both on entry ("a_check") and after every
\* wake-up ("a_recheck"); wait(lk) releases the mutex and blocks in one step.
awaitCheckOnce(t) ==
  /\ pc[t] \in {"a_check", "a_recheck"}
  /\ IF pc[t] = "a_recheck" \/ tab[obj[t]].status = FINISHED
       THEN Goto(t, "a_ret") /\ UNCHANGED mutex
       ELSE Goto(t, "a_wait") /\ mutex' = [mutex EXCEPT ![obj[t]] = 0]
  /\ UNCHANGED <<tab, obj, tmp, after, finishCalled, finishRet>>
  /\ LatchFrame

awaitCheck(t) ==
  /\ pc[t] \in {"a_check", "a_recheck"}
  /\ IF tab[obj[t]].status = FINISHED
       THEN Goto(t, "a_ret") /\ UNCHANGED mutex
       ELSE Goto(t, "a_wait") /\ mutex' = [mutex EXCEPT ![obj[t]] = 0]
  /\ UNCHANGED <<tab, obj, tmp, after, finishCalled, finishRet>>
  /\ LatchFrame

\* A spurious wake-up of the condition variable.
awaitSpurious(t) ==
  /\ pc[t] = "a_wait"
  /\ Goto(t, "a_relock")
  /\ UNCHANGED <<tab, mutex, obj, tmp, after, finishCalled, finishRet>>
  /\ LatchFrame

\* A woken waiter reacquires the mutex before wait(lk) returns.
awaitRelock(t) ==
  /\ Lock(t, "a_relock", "a_recheck")
  /\ UNCHANGED <<tab, obj, tmp, after, finishCalled, finishRet>>
  /\ LatchFrame

\* The unique_lock is released and awaitFinished returns.
awaitReturn(t) ==
  /\ Unlock(t, "a_ret")
  /\ UNCHANGED <<tab, obj, tmp, after, finishCalled, finishRet>>
  /\ LatchFrame

\* The steps of thread t on table x.
FinishStep(t, x) ==
  \/ finishBegin(t, x)
  \/ finishLock(t)
  \/ finishSet(t)
  \/ finishNotify(t)
  \/ finishReturn(t)

IsFinishedStep(t, x) ==
  \/ isFinishedBegin(t, x)
  \/ isFinishedLock(t)
  \/ isFinishedRead(t)
  \/ isFinishedReturn(t)

AwaitStep(t, x) ==
  \/ awaitBegin(t, x)
  \/ awaitLock(t)
  \/ awaitCheck(t)
  \/ awaitSpurious(t)
  \/ awaitRelock(t)
  \/ awaitReturn(t)

LatchStep(t, x) == FinishStep(t, x) \/ IsFinishedStep(t, x) \/ AwaitStep(t, x)

\* The steps a thread takes once it is inside a call and is not blocked on
\* the mutex or on the condition variable.
Continue(t) ==
  \/ finishSet(t)
  \/ finishNotify(t)
  \/ finishReturn(t)
  \/ isFinishedRead(t)
  \/ isFinishedReturn(t)
  \/ awaitCheck(t)
  \/ awaitReturn(t)

\* The steps that take the mutex.
Acquire(t) ==
  \/ finishLock(t)
  \/ isFinishedLock(t)
  \/ awaitLock(t)
  \/ awaitRelock(t)

-----------------------------------------------------------------------------
(* LiteralExpression<Variable>::evaluate: evaluateIfVariable.              *)

\* An ExpressionResult that is a Variable.
VariableValue(v) == [kind |-> "Variable", id |-> v, str |-> ""]

\* The constant results an earlier alias of the same SELECT clause may have.
Consts == {IdValue(5), StringValue("lit")}

\* The rows of the input table, two columns wide; variable v is in column
\* ColumnOf(v).
ColumnOf(v) == 1 + (v % 2)

\* context->getResultFromPreviousAggregate(variable): the result an earlier
\* alias of the same clause bound the variable to, or no value.
getResultFromPreviousAggregate(c, v) == c.prev[v]

\* context->getColumnIndexForVariable(variable)
getColumnIndexForVariable(c, v) == ColumnOf(v)

\* std::ranges::all_of(table.begin() + _beginIndex, table.begin() + _endIndex,
\*                     [&](const auto& row) { return row[column] == constantValue; })
allRowsEqual(c, column, constantValue) ==
  \A i \in (c.beginIndex + 1)..c.endIndex : c.inputTable[i][column] = constantValue

\* context->_groupedVariables.contains(variable) && !isInsideAggregate(): the
\* variable is treated as a constant of the group.
foldsConstantNever(c, v, insideAggregate) == FALSE

foldsConstantInsideAggregate(c, v, insideAggregate) == v \in c.groupedVariables

foldsConstant(c, v, insideAggregate) ==
  v \in c.groupedVariables /\ ~insideAggregate

VarFrame == UNCHANGED <<ctx, vexpr>> /\ UNCHANGED <<tableVars, cacheVars, getterVars>>

\* evaluate calls evaluateIfVariable(context, _value).
evaluateVariable ==
  /\ vpc = "idle"
  /\ vpc' = "call"
  /\ cur' = vexpr.value
  /\ UNCHANGED <<depth, vres>>
  /\ VarFrame

Return(r) == vpc' = "done" /\ vres' = r /\ UNCHANGED <<cur, depth>>

\* One call of evaluateIfVariable(context, variable) with variable = cur.  A
\* recursive call is a tail call, so the result of the innermost call is the
\* result of evaluate.  A chain of more than NVars renamings passes through
\* some variable twice: the recursion never returns.
evaluateIfVariableNoChain ==
  /\ vpc = "call"
  /\ LET resultFromSameRow == getResultFromPreviousAggregate(ctx, cur)
     IN IF resultFromSameRow.kind # "none" /\ cur \notin ctx.groupedVariables
          THEN Return(resultFromSameRow)
        ELSE IF cur \in ctx.groupedVariables /\ ~vexpr.insideAggregate
          THEN Return(IdValue(ctx.inputTable[ctx.beginIndex + 1]
                                [getColumnIndexForVariable(ctx, cur)]))
        ELSE Return(VariableValue(cur))
  /\ VarFrame

evaluateIfVariable ==
  /\ vpc = "call"
  /\ LET resultFromSameRow == getResultFromPreviousAggregate(ctx, cur)
     IN IF resultFromSameRow.kind # "none" /\ cur \notin ctx.groupedVariables
          THEN IF resultFromSameRow.kind = "Variable"
                 THEN IF depth < NVars
                        THEN /\ cur' = resultFromSameRow.id
                             /\ depth' = depth + 1
                             /\ UNCHANGED <<vpc, vres>>
                        ELSE /\ vpc' = "diverged"
                             /\ UNCHANGED <<cur, depth, vres>>
                 ELSE Return(resultFromSameRow)
        ELSE IF foldsConstant(ctx, cur, vexpr.insideAggregate)
          THEN LET column == getColumnIndexForVariable(ctx, cur)
                   constantValue == ctx.inputTable[ctx.beginIndex + 1][column]
               IN IF ctx.assertsOn /\ ~allRowsEqual(ctx, column, constantValue)
                    THEN vpc' = "aborted" /\ UNCHANGED <<cur, depth, vres>>
                    ELSE Return(IdValue(constantValue))
        ELSE Return(VariableValue(cur))
  /\ VarFrame

\* The input tables: two rows whose columns are constant, and two rows that
\* differ in every column.
InputTables == {<<Row(2, 0), Row(2, 0)>>, <<Row(2, 0), Row(2, 1)>>}

\* Any binding of the variables by earlier aliases, at most one grouped
\* variable, a window of one or two rows, and a build with or without NDEBUG
\* (assert is compiled out under NDEBUG).
InitAlias ==
  /\ ctx \in [prev : [Vars -> {NoValue} \cup Consts \cup {VariableValue(v) : v \in Vars}],
              groupedVariables : {{}} \cup {{v} : v \in Vars},
              inputTable : InputTables,
              beginIndex : {0, 1}, endIndex : {2},
              assertsOn : BOOLEAN]
  /\ vexpr \in [value : Vars, insideAggregate : BOOLEAN]
  /\ vpc = "idle"
  /\ cur = 1
  /\ depth = 0
  /\ vres = NoValue
  /\ InitNoTables
  /\ InitThreads
  /\ InitNoCache
  /\ InitNoGetters

NextAlias == evaluateVariable \/ evaluateIfVariable

SpecAlias == InitAlias /\ [][NextAlias]_vars

-----------------------------------------------------------------------------
(* The latch under any number of threads.                                  *)

\* Table a of the latch: a small fixed-width or variable-width table.
InitLatchTables ==
  \E k \in 1..1, ty \in {<<"TEXT">>} : \E R \in RowSeqs(k, 1), s \in {k} :
    \/ /\ tab = [x \in Tables |->
                   IF x = "a" THEN FixedTable(k, 1, s, ty) ELSE DefaultTable]
       /\ heap = [p \in Addr |-> IF p = 1 THEN Block(k, R) ELSE NoBlock]
    \/ /\ tab = [x \in Tables |->
                   IF x = "a" THEN VarTable(k, R, s, ty) ELSE DefaultTable]
       /\ heap = [p \in Addr |-> NoBlock]

InitLatch == InitLatchTables /\ InitThreads /\ InitNoCache /\ InitNoVar /\ InitNoGetters

\* Any number of threads call finish, isFinished and awaitFinished on table a.
NextLatch == \E t \in Threads : LatchStep(t, "a")

SpecLatch == InitLatch /\ [][NextLatch]_vars

\* Fair scheduling: a thread inside a call that can take its next step
\* eventually takes it, and a thread that asks for the mutex again and again
\* while it is free eventually gets it.  Nothing forces a thread to begin a
\* call, and nothing forces a spurious wake-up.
FairLatch ==
  /\ SpecLatch
  /\ \A t \in Threads : WF_vars(Continue(t)) /\ SF_vars(Acquire(t))

-----------------------------------------------------------------------------
(* The value operations of ResultTable.  They take no lock, so they run    *)
(* while no thread is inside a call on the latch.                          *)

ThreadFrame ==
  /\ UNCHANGED <<mutex, pc, obj, tmp, after, finishCalled, finishRet>>
  /\ UNCHANGED <<cacheVars, varVars, getterVars>>

\* The lowest free address: where `new` puts the next block.
NewAddr == CHOOSE p \in Addr : ~heap[p].live /\ \A q \in Addr : q < p => heap[q].live

\* The five members swap exchanges; _resultTypes, the mutex and the condition
\* variable stay with their object.
swappedNoStatus(r, o) ==
  [status |-> r.status, nofColumns |-> o.nofColumns, sortedBy |-> o.sortedBy,
   varSizeData |-> o.varSizeData, fixedSizeData |-> o.fixedSizeData,
   resultTypes |-> r.resultTypes]

swapped(r, o) ==
  [status |-> o.status, nofColumns |-> o.nofColumns, sortedBy |-> o.sortedBy,
   varSizeData |-> o.varSizeData, fixedSizeData |-> o.fixedSizeData,
   resultTypes |-> r.resultTypes]

\* friend void swap(ResultTable& a, ResultTable& b)
swap(x, y) ==
  /\ AllIdle
  /\ tab' = [tab EXCEPT ![x] = swapped(tab[x], tab[y]),
                        ![y] = swapped(tab[y], tab[x])]
  /\ UNCHANGED <<heap, res>>
  /\ ThreadFrame

\* ResultTable& operator=(ResultTable&& other): swap(*this, other)
moveAssign(x, y) ==
  /\ AllIdle
  /\ tab' = [tab EXCEPT ![x] = swapped(tab[x], tab[y]),
                        ![y] = swapped(tab[y], tab[x])]
  /\ UNCHANGED <<heap, res>>
  /\ ThreadFrame

\* ResultTable(const ResultTable&): a deep copy of the rows that starts
\* Pending; p is the address of the copy's block.
copyOf(r, p) ==
  [status |-> StatusOTHER, nofColumns |-> r.nofColumns, sortedBy |-> r.sortedBy,
   varSizeData |-> r.varSizeData,
   fixedSizeData |-> IF r.fixedSizeData = NULL THEN NULL ELSE p,
   resultTypes |-> r.resultTypes]

\* ~ResultTable(): the table's block, if any, is deleted.
freed(h, r) ==
  [p \in Addr |-> IF p = r.fixedSizeData THEN NoBlock ELSE h[p]]

\* ResultTable& operator=(ResultTable other): `other` is a copy of the
\* argument; swap(*this, other); the copy, now holding the old members of
\* *this, is destroyed on return.
copyAssign(x, y) ==
  /\ AllIdle
  /\ \E p \in Addr : ~heap[p].live
  /\ LET p == NewAddr
         other == copyOf(tab[y], p)
         h1 == IF other.fixedSizeData = NULL THEN heap
               ELSE [heap EXCEPT ![p] = heap[tab[y].fixedSizeData]]
     IN /\ tab' = [tab EXCEPT ![x] = swapped(tab[x], other)]
        /\ heap' = freed(h1, swapped(other, tab[x]))
  /\ UNCHANGED res
  /\ ThreadFrame

\* A construction that copies the members and leaves `other` as it was.
moveConstructShallow(x, y) ==
  /\ AllIdle
  /\ x # y
  /\ tab' = [tab EXCEPT ![x] = swapped(DefaultTable, tab[y])]
  /\ heap' = freed(heap, tab[x])
  /\ UNCHANGED res
  /\ ThreadFrame

\* ResultTable(ResultTable&& other): the new object starts with the default
\* members and swaps with `other`.  The new object takes the place of x, whose
\* former object has been destroyed.
moveConstruct(x, y) ==
  /\ AllIdle
  /\ x # y
  /\ LET fresh == [DefaultTable EXCEPT !.resultTypes = <<>>]
     IN tab' = [tab EXCEPT ![x] = swapped(fresh, tab[y]),
                           ![y] = swapped(tab[y], fresh)]
  /\ heap' = freed(heap, tab[x])
  /\ UNCHANGED res
  /\ ThreadFrame

\* void clear(): drops all row data; the completion status is kept.
clear(x) ==
  /\ AllIdle
  /\ tab' = [tab EXCEPT ![x].varSizeData = <<>>, ![x].fixedSizeData = NULL]
  /\ heap' = freed(heap, tab[x])
  /\ UNCHANGED res
  /\ ThreadFrame

\* Two tables, of which a has fixed-width storage and b variable-width.
InitTables ==
  \E R \in RowSeqs(1, 1) :
    /\ tab = [x \in Tables |->
                IF x = "a" THEN FixedTable(1, 1, 0, <<"TEXT">>)
                ELSE VarTable(2, <<Row(2, 0)>>, 2, <<>>)]
    /\ heap = [p \in Addr |-> IF p = 1 THEN Block(1, R) ELSE NoBlock]

InitTable == InitTables /\ InitThreads /\ InitNoCache /\ InitNoVar /\ InitNoGetters

\* One thread owns both tables: it calls finish and isFinished on them and,
\* between calls, the value operations.
NextTable ==
  \/ \E x \in Tables : FinishStep(Owner, x) \/ IsFinishedStep(Owner, x) \/ clear(x)
  \/ \E x, y \in Tables :
       \/ swap(x, y)
       \/ moveAssign(x, y)
       \/ copyAssign(x, y)
       \/ moveConstruct(x, y)

SpecTable == InitTable /\ [][NextTable]_vars

-----------------------------------------------------------------------------
(* getDataAsVarSize.                                                       *)

\* res.emplace_back(vector<Id>{{data[i][0], ..., data[i][k - 1]}}) for every
\* row i of a vector<array<Id, k>>.
expand(k, data) ==
  [i \in 1..Len(data) |-> [j \in 1..k |-> data[i][j]]]

Returned(R) == [state |-> "ok", rows |-> R]
Crashed == [state |-> "crash", rows |-> <<>>]

\* What reading through a null, dangling or wrongly typed _fixedSizeData may
\* do: the process dies, or the call returns whatever it found there.
UndefinedResults == {Crashed} \cup {Returned(R) : R \in RowSeqs(1, 1)}

\* The static_cast of _fixedSizeData to vector<array<Id, k>>* is only defined
\* when the pointer is to a live block of that arity.
ValidFixed(r) ==
  /\ r.fixedSizeData # NULL
  /\ heap[r.fixedSizeData].live
  /\ heap[r.fixedSizeData].width = r.nofColumns

\* const vector<vector<Id>> getDataAsVarSize() const
getDataAsVarSize(x) ==
  /\ AllIdle
  /\ LET r == tab[x]
     IN IF Len(r.varSizeData) > 0
          THEN res' = [res EXCEPT ![x] = Returned(r.varSizeData)]
        ELSE IF r.nofColumns \in 1..MaxFixedCols
          THEN IF ValidFixed(r)
                 THEN res' = [res EXCEPT ![x] =
                                Returned(expand(r.nofColumns, heap[r.fixedSizeData].rows))]
                 ELSE \E u \in UndefinedResults : res' = [res EXCEPT ![x] = u]
        ELSE res' = [res EXCEPT ![x] = Returned(<<>>)]
  /\ UNCHANGED <<tab, heap>>
  /\ ThreadFrame

\* The same rows R of width k, in table a as fixed-width storage (for the
\* arities that have one; otherwise a has no storage) and in table b as
\* variable-width storage.
InitDataTables ==
  \E k \in 0..(MaxFixedCols + 1) : \E R \in RowSeqs(k, MaxRows) :
    /\ tab = [x \in Tables |->
                IF x = "b" THEN VarTable(k, R, k, <<>>)
                ELSE IF k \in 1..MaxFixedCols THEN FixedTable(k, 1, k, <<>>)
                ELSE [DefaultTable EXCEPT !.nofColumns = k]]
    /\ heap = [p \in Addr |->
                 IF p = 1 /\ k \in 1..MaxFixedCols THEN Block(k, R) ELSE NoBlock]

InitData == InitDataTables /\ InitThreads /\ InitNoCache /\ InitNoVar /\ InitNoGetters

NextData == \E x \in Tables : getDataAsVarSize(x)

SpecData == InitData /\ [][NextData]_vars

-----------------------------------------------------------------------------
(* LiteralExpression::evaluate for a string or literal constant, and the   *)
(* cache slot cachedResult_.                                               *)

CAddr == 1..NThreads
Dtor == NThreads + 1

Strings == {"<x>", "<y>"}
NodeKinds == {"string", "literal"}

\* The vocabulary: context->_qec.getIndex().getId(s, &id), a deterministic
\* lookup that finds "<x>" and does not find "<y>".
getId(str) ==
  IF str = "<x>" THEN [found |-> TRUE, id |-> 1] ELSE [found |-> FALSE, id |-> 0]

\* IdOrString result = idWasFound ? IdOrString{id} : IdOrString{s};
resolve(str) ==
  IF getId(str).found THEN IdValue(getId(str).id) ELSE StringValue(str)

tableFrame == UNCHANGED <<tableVars, varVars, getterVars>>

SetLoc(t, l) == loc' = [loc EXCEPT ![t] = l]
EGoto(t, l) == epc' = [epc EXCEPT ![t] = l]

\* delete p, by `who`.
deleted(c, who) ==
  [c EXCEPT !.state = "freed", !.freedBy = who,
            !.frees = IF @ < 2 THEN @ + 1 ELSE @]

\* A thread calls evaluate on the node.
evaluateBegin(t) ==
  /\ epc[t] = "idle"
  /\ ~destroyed
  /\ EGoto(t, "load")
  /\ SetLoc(t, NoLocals)
  /\ UNCHANGED <<node, slot, cell, cancelled, destroyed>>
  /\ tableFrame

\* if (auto ptr = cachedResult_.load(std::memory_order_relaxed))
evaluateLoad(t) ==
  /\ epc[t] = "load"
  /\ SetLoc(t, [loc[t] EXCEPT !.ptr = slot])
  /\ EGoto(t, IF slot # NULL THEN "deref" ELSE "lookup")
  /\ UNCHANGED <<node, slot, cell, cancelled, destroyed>>
  /\ tableFrame

\* The load and the exchange are memory_order_relaxed: the construction of
\* the IdOrString by its allocating thread does not happen before the read
\* of *ptr by another thread.
ReadIsOrdered(t, a) == cell[a].by = t

\* return *ptr;  what the read finds depends on the state of the object.
evaluateDeref(t) ==
  /\ epc[t] = "deref"
  /\ LET c == cell[loc[t].ptr]
         done(o, v) ==
           SetLoc(t, [loc[t] EXCEPT !.observed = o, !.ret = v,
                                    !.outcome = "returned"])
     IN IF c.state = "freed"
          THEN \E v \in {c.val, Garbage} : done("freed", v)
        ELSE IF ReadIsOrdered(t, loc[t].ptr)
          THEN done("complete", c.val)
        ELSE done("complete", c.val) \/ done("partial", Garbage)
  /\ EGoto(t, "idle")
  /\ UNCHANGED <<node, slot, cell, cancelled, destroyed>>
  /\ tableFrame

\* getId(s, &id); result; auto ptrForCache = std::make_unique<IdOrString>(result);
evaluateLookup(t) ==
  /\ epc[t] = "lookup"
  /\ LET a == CHOOSE p \in CAddr :
                /\ cell[p].state = "unused"
                /\ \A q \in CAddr : q < p => cell[q].state # "unused"
         r == resolve(node.value)
     IN /\ cell' = [cell EXCEPT ![a] = [NoCell EXCEPT !.state = "live",
                                                      !.val = r, !.by = t]]
        /\ SetLoc(t, [loc[t] EXCEPT !.result = r, !.ptrForCache = a])
  /\ EGoto(t, "xchg")
  /\ UNCHANGED <<node, slot, cancelled, destroyed>>
  /\ tableFrame

\* A plain store of the new pointer: the old pointer is lost.
evaluateStore(t) ==
  /\ epc[t] = "xchg"
  /\ slot' = loc[t].ptrForCache
  /\ SetLoc(t, [loc[t] EXCEPT !.ptrForCache = NULL])
  /\ EGoto(t, "check")
  /\ UNCHANGED <<node, cell, cancelled, destroyed>>
  /\ tableFrame

\* ptrForCache.reset(std::atomic_exchange_explicit(&cachedResult_,
\*     ptrForCache.release(), std::memory_order_relaxed));
\* the slot gets the new pointer and ptrForCache the pointer that was there.
evaluateExchange(t) ==
  /\ epc[t] = "xchg"
  /\ slot' = loc[t].ptrForCache
  /\ SetLoc(t, [loc[t] EXCEPT !.ptrForCache = slot])
  /\ cell' = IF slot = NULL THEN cell
             ELSE [cell EXCEPT ![slot].displacedBy = t]
  /\ EGoto(t, "check")
  /\ UNCHANGED <<node, cancelled, destroyed>>
  /\ tableFrame

\* The check ignores the signal.
evaluateCheckNoThrow(t) ==
  /\ epc[t] = "check"
  /\ SetLoc(t, [loc[t] EXCEPT !.outcome = "returned", !.ret = loc[t].result])
  /\ EGoto(t, "exit")
  /\ UNCHANGED <<node, slot, cell, cancelled, destroyed>>
  /\ tableFrame

\* context->cancellationHandle_->throwIfCancelled(); return result;
evaluateCheck(t) ==
  /\ epc[t] = "check"
  /\ IF cancelled
       THEN SetLoc(t, [loc[t] EXCEPT !.outcome = "cancelled"])
       ELSE SetLoc(t, [loc[t] EXCEPT !.outcome = "returned",
                                     !.ret = loc[t].result])
  /\ EGoto(t, "exit")
  /\ UNCHANGED <<node, slot, cell, cancelled, destroyed>>
  /\ tableFrame

\* Leaving the lambda empties the slot again when the call was cancelled.
evaluateExitResetsSlot(t) ==
  /\ epc[t] = "exit"
  /\ LET p == loc[t].ptrForCache
     IN cell' = IF p = NULL THEN cell
                ELSE [cell EXCEPT ![p] = deleted(cell[p], t)]
  /\ slot' = IF loc[t].outcome = "cancelled" THEN NULL ELSE slot
  /\ SetLoc(t, [loc[t] EXCEPT !.ptrForCache = NULL])
  /\ EGoto(t, "idle")
  /\ UNCHANGED <<node, cancelled, destroyed>>
  /\ tableFrame

\* Leaving the lambda, by return or by the exception: the destructor of
\* ptrForCache deletes the displaced value, if there was one.
evaluateExit(t) ==
  /\ epc[t] = "exit"
  /\ LET p == loc[t].ptrForCache
     IN cell' = IF p = NULL THEN cell
                ELSE [cell EXCEPT ![p] = deleted(cell[p], t)]
  /\ SetLoc(t, [loc[t] EXCEPT !.ptrForCache = NULL])
  /\ EGoto(t, "idle")
  /\ UNCHANGED <<node, slot, cancelled, destroyed>>
  /\ tableFrame

\* The cancellation signal is triggered.
cancel ==
  /\ ~cancelled
  /\ ~destroyed
  /\ cancelled' = TRUE
  /\ UNCHANGED <<node, slot, cell, epc, loc, destroyed>>
  /\ tableFrame

\* ~LiteralExpression(): delete cachedResult_.load(std::memory_order_relaxed);
\* the node is destroyed when no evaluate call is running.
destroyNode ==
  /\ ~destroyed
  /\ \A t \in Threads : epc[t] = "idle"
  /\ destroyed' = TRUE
  /\ cell' = IF slot = NULL THEN cell
             ELSE [cell EXCEPT ![slot] = deleted(cell[slot], Dtor)]
  /\ UNCHANGED <<node, slot, epc, loc, cancelled>>
  /\ tableFrame

InitCache ==
  /\ node \in [kind : NodeKinds, value : Strings]
  /\ slot = NULL
  /\ cell = [a \in CAddr |-> NoCell]
  /\ epc = [t \in Threads |-> "idle"]
  /\ loc = [t \in Threads |-> NoLocals]
  /\ cancelled = FALSE
  /\ destroyed = FALSE
  /\ InitNoTables
  /\ InitThreads
  /\ InitNoVar
  /\ InitNoGetters

NextCache ==
  \/ \E t \in Threads :
       \/ evaluateBegin(t)
       \/ evaluateLoad(t)
       \/ evaluateDeref(t)
       \/ evaluateLookup(t)
       \/ evaluateExchange(t)
       \/ evaluateCheck(t)
       \/ evaluateExit(t)
  \/ cancel
  \/ destroyNode

SpecCache == InitCache /\ [][NextCache]_vars

-----------------------------------------------------------------------------
(* LiteralExpression<T>::getCacheKey.                                      *)

GetterFrame == UNCHANGED <<tableVars, cacheVars, varVars>>

\* The variants of T: a variable, a string, a ValueId, a literal, a
\* materialized vector of ids, and any other type, one with std::to_string.
LitNodes ==
  [T : {"Variable"}, value : Vars]
    \cup [T : {"string", "Literal"}, value : Strings]
    \cup [T : {"ValueId"}, value : Ids]
    \cup [T : {"VectorWithMemoryLimit"}, value : SeqsUpTo(Ids, 1)]
    \cup [T : {"other"}, value : Ids]

\* The VariableToColumnMap: some of the variables, each with its column.
ColumnMaps == UNION {[D -> 0..1] : D \in SUBSET Vars}

getCacheKeyNoThrow(l, varColMap_) ==
  IF l.T = "Variable"
    THEN Key(<<"#column_",
               ToString(IF l.value \in DOMAIN varColMap_
                          THEN varColMap_[l.value] ELSE 0), "#">>)
    ELSE Key(<<l.value>>)

\* string getCacheKey(const VariableToColumnMap& varColMap) const
getCacheKey(l, varColMap_) ==
  IF l.T = "Variable"
    THEN IF l.value \notin DOMAIN varColMap_
           THEN Thrown("Variable not found")
           ELSE Key(<<"#column_", ToString(varColMap_[l.value]), "#">>)
  ELSE IF l.T = "string" THEN Key(<<l.value>>)
  ELSE IF l.T = "ValueId" THEN Key(<<"#valueId ", ToString(l.value), "#">>)
  ELSE IF l.T = "Literal" THEN Key(<<"#literal: ", l.value>>)
  ELSE IF l.T = "VectorWithMemoryLimit"
    THEN Thrown("Trying to get cache key for value that should not be cached.")
  ELSE Key(<<ToString(l.value)>>)

\* A call of getCacheKey on the node.
callGetCacheKey ==
  /\ cacheKey = NoKey
  /\ cacheKey' = getCacheKey(lit, varColMap)
  /\ UNCHANGED <<lit, varColMap, input, regex, numArg, numId>>
  /\ GetterFrame

InitKey ==
  /\ lit \in LitNodes
  /\ varColMap \in ColumnMaps
  /\ cacheKey = NoKey
  /\ input = [type |-> "string", holds |-> "string", value |-> <<>>]
  /\ regex = NoRegex
  /\ numArg = [NanToUndef |-> FALSE, T |-> "Id", value |-> NoId]
  /\ numId = NoId
  /\ InitNoTables
  /\ InitThreads
  /\ InitNoCache
  /\ InitNoVar

NextKey == callGetCacheKey

SpecKey == InitKey /\ [][NextKey]_vars

-----------------------------------------------------------------------------
(* StringValueGetter and RegexValueGetter.                                 *)

\* A string is a sequence of characters; the characters that matter are the
\* quotation mark, the opening and closing parenthesis and a letter.
Quote == "\""
Chars == {Quote, "(", ")", "a"}
CharStrings == SeqsUpTo(Chars, MaxLen)

\* The ValueIds given to the getters: the undefined id and the ids of the
\* vocabulary entries.
Vocabulary == <<<<"a">>, <<"(", "a">>>>
UndefId == [datatype |-> "Undefined", value |-> 0]
VocabId(i) == [datatype |-> "VocabIndex", value |-> i]
GetterIds == {UndefId} \cup {VocabId(i) : i \in DOMAIN Vocabulary}

\* std::optional<string>
NoString == [has_value |-> FALSE, value |-> <<>>]
SomeString(str) == [has_value |-> TRUE, value |-> str]

\* StringValueGetter::operator()(ValueId, ...): the resolved string of the id,
\* or nothing when the id has none.
StringOfId(id) ==
  IF id.datatype = "VocabIndex" THEN SomeString(Vocabulary[id.value])
  ELSE NoString

\* StringValueGetter::operator()(string s, ...): strip quotes.
StringOfString(str) ==
  IF Len(str) >= 2 /\ str[1] = Quote /\ str[Len(str)] = Quote
    THEN SomeString(SubSeq(str, 2, Len(str) - 1))
    ELSE SomeString(str)

\* StringValueGetter on a ValueId, a string, or an IdOrString holding either.
StringValueGetter(in) ==
  IF in.type = "ValueId" \/ (in.type = "IdOrString" /\ in.holds = "ValueId")
    THEN StringOfId(in.value)
    ELSE StringOfString(in.value)

\* The nesting depth of the parentheses after each prefix of the pattern;
\* -1 once a closing parenthesis has no opening one.
RECURSIVE ParenDepth(_, _)
ParenDepth(str, d) ==
  IF d < 0 \/ str = <<>> THEN d
  ELSE ParenDepth(Tail(str), IF Head(str) = "(" THEN d + 1
                             ELSE IF Head(str) = ")" THEN d - 1
                             ELSE d)

\* re2::RE2(pattern, RE2::Quiet): the constructor does not throw; it parses
\* the pattern and the object records whether that succeeded (ok()).  Over
\* Chars a pattern is malformed exactly when its parentheses do not match.
RE2(pattern) ==
  [kind |-> "regex", pattern |-> pattern, ok |-> ParenDepth(pattern, 0) = 0]

NullRegex == [kind |-> "nullptr", pattern |-> <<>>, ok |-> FALSE]

\* std::unique_ptr<re2::RE2> RegexValueGetter::operator()(S&& input, ...)
RegexValueGetter(in) ==
  LET str == StringValueGetter(in)
  IN IF ~str.has_value THEN NullRegex ELSE RE2(str.value)

RegexInputs ==
  [type : {"string"}, holds : {"string"}, value : CharStrings]
    \cup [type : {"IdOrString"}, holds : {"string"}, value : CharStrings]
    \cup [type : {"ValueId"}, holds : {"ValueId"}, value : GetterIds]
    \cup [type : {"IdOrString"}, holds : {"ValueId"}, value : GetterIds]

\* A call of the regex getter on the input.
callRegexValueGetter ==
  /\ regex = NoRegex
  /\ regex' = RegexValueGetter(input)
  /\ UNCHANGED <<lit, varColMap, cacheKey, input, numArg, numId>>
  /\ GetterFrame

InitRegex ==
  /\ input \in RegexInputs
  /\ regex = NoRegex
  /\ lit = [T |-> "string", value |-> ""]
  /\ varColMap = <<>>
  /\ cacheKey = NoKey
  /\ numArg = [NanToUndef |-> FALSE, T |-> "Id", value |-> NoId]
  /\ numId = NoId
  /\ InitNoTables
  /\ InitThreads
  /\ InitNoCache
  /\ InitNoVar

NextRegex == callRegexValueGetter

SpecRegex == InitRegex /\ [][NextRegex]_vars

-----------------------------------------------------------------------------
(* makeNumericId.                                                          *)

\* int64_t values, and double values.  A double is written as its number of
\* halves; NaN is the one double outside the finite range.
Ints == (0 - MaxInt)..MaxInt
NaN == MaxInt + 1
Doubles == Ints \cup {NaN}

\* std::isnan(t)
isnan(d) == d = NaN

\* Id::makeFromInt, Id::makeFromDouble, Id::makeUndefined: the value with its
\* datatype tag.
makeFromInt(n) == [datatype |-> "Int", value |-> n]
makeFromDouble(d) == [datatype |-> "Double", value |-> d]
makeUndefined == UndefId

\* using NumericValue = std::variant<NotNumeric, double, int64_t>: the type
\* of the alternative held, and its value.
NumericValues ==
  {[holds |-> "NotNumeric", value |-> 0]}
    \cup [holds : {"floating_point"}, value : Doubles]
    \cup [holds : {"integral"}, value : Ints]

NumericIds ==
  {makeUndefined} \cup {makeFromInt(n) : n \in Ints}
    \cup {makeFromDouble(d) : d \in Doubles}

\* template <bool NanToUndef = false, typename T> Id makeNumericId(T t)
\* The visit of a NumericValue calls makeNumericId(x) on the alternative held,
\* that is, with the default NanToUndef = false.
RECURSIVE makeNumericId(_, _, _)
makeNumericId(NanToUndef, T, t) ==
  IF T = "integral" THEN makeFromInt(t)
  ELSE IF T = "floating_point" /\ NanToUndef
    THEN IF isnan(t) THEN makeUndefined ELSE makeFromDouble(t)
  ELSE IF T = "floating_point" /\ ~NanToUndef THEN makeFromDouble(t)
  ELSE IF T = "NotNumeric" THEN makeUndefined
  ELSE IF T = "NumericValue" THEN makeNumericId(FALSE, t.holds, t.value)
  ELSE t

NumericArgs ==
  [NanToUndef : BOOLEAN, T : {"integral"}, value : Ints]
    \cup [NanToUndef : BOOLEAN, T : {"floating_point"}, value : Doubles]
    \cup [NanToUndef : BOOLEAN, T : {"NotNumeric"}, value : {0}]
    \cup [NanToUndef : BOOLEAN, T : {"NumericValue"}, value : NumericValues]
    \cup [NanToUndef : BOOLEAN, T : {"Id"}, value : NumericIds]

\* A call makeNumericId<NanToUndef>(t).
callMakeNumericId ==
  /\ numId = NoId
  /\ numId' = makeNumericId(numArg.NanToUndef, numArg.T, numArg.value)
  /\ UNCHANGED <<lit, varColMap, cacheKey, input, regex, numArg>>
  /\ GetterFrame

InitNumeric ==
  /\ numArg \in NumericArgs
  /\ numId = NoId
  /\ lit = [T |-> "string", value |-> ""]
  /\ varColMap = <<>>
  /\ cacheKey = NoKey
  /\ input = [type |-> "string", holds |-> "string", value |-> <<>>]
  /\ regex = NoRegex
  /\ InitNoTables
  /\ InitThreads
  /\ InitNoCache
  /\ InitNoVar

NextNumeric == callMakeNumericId

SpecNumeric == InitNumeric /\ [][NextNumeric]_vars

-----------------------------------------------------------------------------
(* The completion latch: properties.                                       *)

FinishPcs == {"f_lock", "f_set", "f_notify", "f_unlock"}
AwaitPcs == {"a_lock", "a_check", "a_wait", "a_relock", "a_recheck", "a_ret"}

InFinish(t) == pc[t] \in FinishPcs
InAwait(t) == pc[t] \in AwaitPcs

\* The members of a table other than its completion status.
OtherFields(r) ==
  <<r.nofColumns, r.sortedBy, r.varSizeData, r.fixedSizeData, r.resultTypes>>

\* C1: an isFinished call that began after some finish call on the table had
\* returned returns true (at "i_ret" the call holds in tmp the value it is
\* about to return).
C1_IsFinishedAfterFinish ==
  \A t \in Threads : (pc[t] = "i_ret" /\ after[t]) => tmp[t]

C1_Witness ==
  \E t \in Threads : pc[t] = "i_ret" /\ after[t] /\ tmp[t]

\* C2: an awaitFinished call on a table that began Pending gets past its wait
\* only when the status is Finished and a finish call has been made, however
\* many threads wait and whatever spurious wake-ups occur.
C2_AwaitReturnsOnlyFinished ==
  \A t \in Threads :
    pc[t] = "a_ret" => (tab[obj[t]].status = FINISHED /\ finishCalled[obj[t]])

\* Two threads were woken from the wait; one is about to return.
C2_Witness ==
  \E t, u \in Threads :
    /\ t # u
    /\ pc[t] = "a_ret"
    /\ pc[u] \in {"a_relock", "a_recheck"}

\* C3: under fair scheduling, once finish has been called on the table every
\* awaitFinished call on it returns, whether it was blocked in the wait when
\* finish ran or began afterwards.
C3_FinishReleasesWaiters ==
  \A t \in Threads : (InAwait(t) /\ finishCalled[obj[t]]) ~> ~InAwait(t)

\* A thread that was blocked in the wait has been woken after a finish.
C3_Witness ==
  \E t \in Threads : pc[t] = "a_relock" /\ finishRet[obj[t]]

\* C5: every step of a finish call, the first on the table or a later one,
\* raises no error, leaves a Finished status Finished, leaves the status
\* Finished once it has passed the store, and leaves every other member of
\* the table and the row storage unchanged.
C5_FinishIdempotent ==
  [][\A t \in Threads :
       (InFinish(t) /\ pc'[t] # pc[t]) =>
         /\ pc'[t] \in FinishPcs \cup {"idle"}
         /\ OtherFields(tab'[obj[t]]) = OtherFields(tab[obj[t]])
         /\ heap' = heap
         /\ pc[t] = "f_set" => tab'[obj[t]].status = FINISHED
         /\ tab[obj[t]].status = FINISHED => tab'[obj[t]].status = FINISHED
    ]_vars

\* A second finish call has stored the status after an earlier one returned.
C5_Witness ==
  \E t \in Threads :
    /\ pc[t] = "f_notify"
    /\ finishRet[obj[t]]
    /\ tab[obj[t]].status = FINISHED

-----------------------------------------------------------------------------
(* The value operations: properties.                                       *)

\* C4, as claimed: a table that is Finished is still Finished after every
\* step (the object a move construction puts in place of x is a new table).
C4_StatusNeverReverts ==
  [][\A x \in Tables :
       (tab[x].status = FINISHED /\ ~(\E y \in Tables : moveConstruct(x, y)))
         => tab'[x].status = FINISHED
    ]_vars

\* C4, amended: finish, clear, isFinished and awaitFinished never take a
\* table from Finished back to Pending; a table loses Finished only as an
\* operand of swap or of a move assignment, as the target of a copy
\* assignment or as the source of a move construction.  swap and the move
\* assignment exchange the two statuses, the source of a move construction is
\* left Pending and the new table has the source's former status, and the
\* target of a copy assignment has the Pending status of the copy.
C4_StatusRevertsOnlyBySwap ==
  [][/\ \A x \in Tables :
          (tab[x].status = FINISHED /\ tab'[x].status # FINISHED) =>
             \E y \in Tables :
                \/ swap(x, y) \/ swap(y, x)
                \/ moveAssign(x, y) \/ moveAssign(y, x)
                \/ copyAssign(x, y)
                \/ moveConstruct(y, x) \/ moveConstruct(x, y)
     /\ \A x, y \in Tables :
          (swap(x, y) \/ moveAssign(x, y)) =>
             /\ tab'[x].status = tab[y].status
             /\ tab'[y].status = tab[x].status
     /\ \A x, y \in Tables :
          moveConstruct(x, y) =>
             /\ tab'[x].status = tab[y].status
             /\ tab'[y].status = StatusOTHER
     /\ \A x, y \in Tables :
          copyAssign(x, y) => tab'[x].status = StatusOTHER
    ]_vars

\* A Finished table and a Pending one have exchanged their statuses.
C4_Witness ==
  /\ AllIdle
  /\ finishRet["a"] /\ ~finishRet["b"]
  /\ tab["a"].status = StatusOTHER
  /\ tab["b"].status = FINISHED

\* The members a move transfers: row storage, column count, sorted column and
\* completion status.
Transferred(r) ==
  <<r.varSizeData, r.fixedSizeData, r.nofColumns, r.sortedBy, r.status>>

\* C16: ResultTable B(std::move(A)) gives B the row storage, the column count,
\* the sorted column and the completion status A had, with the block of rows
\* untouched, and leaves A Pending, with no columns and no row storage, so
\* that A shares no storage with B.
C16_MoveConstructTransfers ==
  [][\A x, y \in Tables :
       moveConstruct(x, y) =>
         /\ Transferred(tab'[x]) = Transferred(tab[y])
         /\ tab[y].fixedSizeData # NULL =>
              /\ heap'[tab'[x].fixedSizeData] = heap[tab[y].fixedSizeData]
              /\ heap'[tab'[x].fixedSizeData].live
         /\ tab'[y].status = StatusOTHER
         /\ tab'[y].nofColumns = 0
         /\ tab'[y].varSizeData = <<>>
         /\ tab'[y].fixedSizeData = NULL
    ]_vars

\* Table b holds the block, the column count and the Finished status that
\* table a had; a is Pending and empty and has kept its result types.
C16_Witness ==
  /\ AllIdle
  /\ tab["b"].status = FINISHED
  /\ tab["b"].nofColumns = 1
  /\ tab["b"].fixedSizeData # NULL
  /\ heap[tab["b"].fixedSizeData].live
  /\ tab["a"].status = StatusOTHER
  /\ tab["a"].nofColumns = 0
  /\ tab["a"].varSizeData = <<>>
  /\ tab["a"].fixedSizeData = NULL
  /\ tab["a"].resultTypes = <<"TEXT">>

\* C6: for k in 1..5 columns, getDataAsVarSize returns, on the fixed-width
\* table and on the variable-width table that hold the same rows, the same row
\* sequence (the rows in res are those of the last call on each table).
C6_SameRowsFromBothStorages ==
  (/\ tab["a"].nofColumns \in 1..MaxFixedCols
   /\ res["a"].state # "none"
   /\ res["b"].state # "none")
    => (res["a"].state = "ok" /\ res["b"] = res["a"])

\* C17: getDataAsVarSize on a table with no variable-width rows and a column
\* count outside 1..5 ends in a fatal error; it does not return a row
\* sequence, empty or not.
C17_UnsupportedArityIsFatal ==
  \A x \in Tables :
    (/\ Len(tab[x].varSizeData) = 0
     /\ tab[x].nofColumns \notin 1..MaxFixedCols
     /\ res[x].state # "none")
      => res[x].state = "crash"

-----------------------------------------------------------------------------
(* The cache slot: properties.                                             *)

Allocated == {a \in CAddr : cell[a].state # "unused"}

\* C7: every evaluate call on the node that returns yields the value one
\* sequential evaluate yields: the Id if the lookup finds the string, else the
\* string.
C7_SameValueAsSequential ==
  \A t \in Threads :
    loc[t].outcome = "returned" => loc[t].ret = resolve(node.value)

\* C8: no value allocated for the slot is deleted twice; a value deleted by a
\* thread is one that thread's exchange displaced; the value the destructor
\* deletes is the one resident in the slot; and once the node is destroyed
\* every allocated value has been deleted exactly once.
C8_FreedExactlyOnce ==
  /\ \A a \in Allocated :
       /\ cell[a].frees <= 1
       /\ cell[a].state = "freed" =>
            \/ cell[a].freedBy \in Threads /\ cell[a].displacedBy = cell[a].freedBy
            \/ cell[a].freedBy = Dtor /\ cell[a].displacedBy = 0 /\ slot = a
  /\ destroyed => \A a \in Allocated : cell[a].frees = 1

\* After racing installs the node was destroyed: one value was deleted by the
\* thread that displaced it and the resident one by the destructor.
C8_Witness ==
  /\ destroyed
  /\ \E a, b \in Allocated :
       /\ cell[a].freedBy \in Threads
       /\ cell[b].freedBy = Dtor

\* C9: a thread that loaded a non-null pointer from the slot reads a fully
\* constructed IdOrString through it.
C9_NoPartialRead ==
  \A t \in Threads : loc[t].observed # "partial"

\* C14: when the cancellation signal is triggered at the moment an evaluate
\* call that missed the cache reaches its check after the vocabulary lookup,
\* the call ends with the Cancelled error; a call that ended so has returned
\* no value.
C14_CancelledAtCheckThrows ==
  /\ [][\A t \in Threads :
          (epc[t] = "check" /\ epc'[t] = "exit" /\ cancelled) =>
             /\ loc'[t].outcome = "cancelled"
             /\ loc'[t].ret = NoValue]_vars
  /\ [](\A t \in Threads : loc[t].outcome = "cancelled" => loc[t].ret = NoValue)

\* A call that found the slot empty and looked the string up has ended with
\* the Cancelled error.
C14_Witness ==
  \E t \in Threads :
    /\ epc[t] = "idle"
    /\ loc[t].outcome = "cancelled"
    /\ loc[t].result = resolve(node.value)
    /\ loc[t].ptr = NULL

\* The values the slot owns: allocated, not deleted, and not (or no longer)
\* held by the ptrForCache of a call.
Resident ==
  {a \in Allocated : /\ cell[a].state = "live"
                     /\ \A t \in Threads : loc[t].ptrForCache # a}

\* C19: the slot only goes from empty to filled: no step makes a non-null
\* slot null; and at every moment at most one value is resident, the one the
\* slot points to.
C19_SlotOnlyFills ==
  /\ [][slot # NULL => slot' # NULL]_vars
  /\ [](Cardinality(Resident) <= 1 /\ Resident \subseteq {slot})

\* A second install displaced the first value; the slot is still filled and
\* holds the one resident value.
C19_Witness ==
  /\ ~destroyed
  /\ slot # NULL
  /\ Resident = {slot}
  /\ \E a \in Allocated : cell[a].displacedBy # 0 /\ cell[a].state = "freed"

\* C21: no evaluate call reads *ptr after the value was deleted: the value a
\* reader loaded from the slot is not freed by the call that displaced it
\* before the reader has copied it.
C21_NoReadAfterFree ==
  \A t \in Threads : loc[t].observed # "freed"

\* Some evaluate call on the node has ended with the Cancelled error and the
\* signal is still triggered.
SomeCallCancelled ==
  /\ cancelled
  /\ \E u \in Threads : epc[u] = "idle" /\ loc[u].outcome = "cancelled"

\* The steps of a call that found the slot filled: from the load to the read
\* of *ptr, without a lookup, and from there to the return, without a check of
\* the cancellation signal.
HitPathSkipsLookupAndCheck ==
  \A t \in Threads :
    /\ (epc[t] = "load" /\ slot # NULL /\ epc'[t] # "load") => epc'[t] = "deref"
    /\ (epc[t] = "deref" /\ epc'[t] # "deref") =>
         /\ epc'[t] = "idle"
         /\ loc'[t].outcome = "returned"
         /\ loc'[t].result = NoValue
         /\ slot' = slot

\* C22: the install comes before the cancellation check and the hit path has
\* no check: a call that ended with Cancelled has filled the slot, and every
\* later call returns the cached value, that is the value the string resolves
\* to, without a lookup and without Cancelled, also while the signal is still
\* triggered.
C22_CancelledCallFillsCache ==
  /\ [](\A t \in Threads : loc[t].outcome = "cancelled" => slot # NULL)
  /\ [][HitPathSkipsLookupAndCheck]_vars
  /\ [][\A t \in Threads :
          (SomeCallCancelled /\ epc[t] = "deref" /\ epc'[t] = "idle") =>
             loc'[t].ret = resolve(node.value)]_vars

\* The order of install and check alone, without the value returned: a call
\* that ended with Cancelled has filled the slot, and a call that finds the
\* slot filled takes the hit path, with no lookup and no Cancelled.
InstallBeforeCheck ==
  /\ [](\A t \in Threads : loc[t].outcome = "cancelled" => slot # NULL)
  /\ [][HitPathSkipsLookupAndCheck]_vars

-----------------------------------------------------------------------------
(* Variable resolution: properties.                                        *)

\* The chain of same-clause aliases that starts at variable v, followed for at
\* most n renamings: the constant it ends in, or NoValue when some variable on
\* the way is grouped, is bound to nothing, or the chain is longer than n.
RECURSIVE ChainEnd(_, _)
ChainEnd(v, n) ==
  IF v \in ctx.groupedVariables \/ ctx.prev[v].kind = "none" THEN NoValue
  ELSE IF ctx.prev[v].kind # "Variable" THEN ctx.prev[v]
  ELSE IF n = 0 THEN NoValue
  ELSE ChainEnd(ctx.prev[v].id, n - 1)

\* The number of renamings on the chain from v to its constant.
RECURSIVE ChainLen(_, _)
ChainLen(v, n) ==
  IF ctx.prev[v].kind # "Variable" \/ n = 0 THEN 0
  ELSE 1 + ChainLen(ctx.prev[v].id, n - 1)

HasChain(v) == ChainEnd(v, NVars - 1).kind # "none"

\* C10: when the variable of the expression starts an acyclic chain of
\* aliases v1 -> ... -> vk -> c with no vi grouped, the evaluation returns c.
\* It terminates: every recursive call is on the next variable of the chain,
\* one renaming closer to c, and it neither runs on for ever nor aborts.
C10_AliasChainResolves ==
  HasChain(vexpr.value) =>
    /\ vpc \notin {"diverged", "aborted"}
    /\ vpc = "call" =>
         /\ HasChain(cur)
         /\ ChainEnd(cur, NVars - 1) = ChainEnd(vexpr.value, NVars - 1)
         /\ ChainLen(cur, NVars) + depth = ChainLen(vexpr.value, NVars)
    /\ vpc = "done" =>
         /\ vres = ChainEnd(vexpr.value, NVars - 1)
         /\ depth = ChainLen(vexpr.value, NVars)

\* ?y is an alias of ?x and ?x of the constant 5: evaluating ?y returned 5
\* after one recursive call.
C10_Witness ==
  /\ vpc = "done"
  /\ depth = 1
  /\ ctx.prev[vexpr.value].kind = "Variable"
  /\ ctx.prev[ctx.prev[vexpr.value].id] = IdValue(5)
  /\ vres = IdValue(5)

\* The expression's variable is folded: it is grouped and the evaluation is not
\* inside an aggregate.
Folded == vexpr.value \in ctx.groupedVariables /\ ~vexpr.insideAggregate

\* The value at the start of the window in the column of the variable.
ValueAtBegin == ctx.inputTable[ctx.beginIndex + 1][ColumnOf(vexpr.value)]

\* Every row of [begin, end) holds the same value in the variable's column.
WindowConstant == allRowsEqual(ctx, ColumnOf(vexpr.value), ValueAtBegin)

\* C11: a grouped variable outside an aggregate whose column is constant over
\* [begin, end) evaluates to one scalar, the table entry at row begin; the
\* evaluation neither aborts nor returns the variable or a column.
C11_GroupedConstantFolds ==
  (Folded /\ WindowConstant) =>
    /\ vpc \notin {"aborted", "diverged"}
    /\ vpc = "done" => vres = IdValue(ValueAtBegin) /\ depth = 0

\* A grouped variable over a window of two equal rows was folded to the value
\* of the first row.
C11_Witness ==
  /\ vpc = "done"
  /\ Folded
  /\ ctx.beginIndex = 0
  /\ ctx.inputTable[1] = ctx.inputTable[2]
  /\ vres = IdValue(ValueAtBegin)

\* C12: a grouped variable outside an aggregate whose column is not constant
\* over [begin, end) never evaluates to a value: the evaluation ends in the
\* invariant violation.
C12_NonConstantGroupRaises ==
  (Folded /\ ~WindowConstant) => vpc # "done"

\* C18: inside an aggregate, a variable that no earlier alias resolves (it is
\* bound by none, or it is grouped) evaluates to the variable itself, grouped
\* or not; no constant is folded and the check over the rows of [begin, end)
\* is not made, so the evaluation cannot abort on rows that differ.
C18_InsideAggregateReturnsVariable ==
  (/\ vexpr.insideAggregate
   /\ \/ getResultFromPreviousAggregate(ctx, vexpr.value).kind = "none"
      \/ vexpr.value \in ctx.groupedVariables) =>
    /\ vpc \notin {"aborted", "diverged"}
    /\ vpc = "done" => vres = VariableValue(vexpr.value) /\ depth = 0

\* Inside an aggregate, a grouped variable whose column differs over the two
\* rows of the window, in a build with asserts, evaluated to the variable.
C18_Witness ==
  /\ vpc = "done"
  /\ vexpr.insideAggregate
  /\ vexpr.value \in ctx.groupedVariables
  /\ ctx.assertsOn
  /\ ~WindowConstant
  /\ vres = VariableValue(vexpr.value)

-----------------------------------------------------------------------------
(* getCacheKey: properties.                                                *)

\* C13: getCacheKey throws instead of returning a key in exactly two cases:
\* the node is a variable that the column map does not contain, and the node
\* is a materialized vector; in every other case it returns a key.
C13_CacheKeyErrors ==
  cacheKey # NoKey =>
    /\ cacheKey.kind \in {"key", "exception"}
    /\ cacheKey.kind = "exception" <=>
         \/ lit.T = "Variable" /\ lit.value \notin DOMAIN varColMap
         \/ lit.T = "VectorWithMemoryLimit"

\* getCacheKey threw for a variable that is absent from a non-empty map.
C13_Witness ==
  /\ cacheKey.kind = "exception"
  /\ lit.T = "Variable"
  /\ lit.value \notin DOMAIN varColMap
  /\ DOMAIN varColMap # {}

-----------------------------------------------------------------------------
(* The value getters: properties.                                          *)

\* C15: the regex getter returns no expression for an input that has no
\* string; for an input whose string is a malformed pattern it reports an
\* error, and returns neither no expression nor an unusable regex object.
C15_MalformedPatternIsAnError ==
  regex # NoRegex =>
    LET str == StringValueGetter(input)
    IN /\ ~str.has_value => regex = NullRegex
       /\ (str.has_value /\ ParenDepth(str.value, 0) # 0) =>
            regex.kind = "exception"
       /\ regex.kind = "regex" => regex.ok

\* The argument of the call is a NaN: passed as a double, or held in a
\* NumericValue.
ArgIsNaN ==
  \/ numArg.T = "floating_point" /\ isnan(numArg.value)
  \/ /\ numArg.T = "NumericValue"
     /\ numArg.value.holds = "floating_point"
     /\ isnan(numArg.value.value)

\* C20: for a NaN, passed as a double or held in a NumericValue,
\* makeNumericId<true> returns the undefined Id and makeNumericId<false>
\* the double Id that holds the NaN.
C20_NanToUndefBothShapes ==
  (numId # NoId /\ ArgIsNaN) =>
    IF numArg.NanToUndef
      THEN numId.datatype = "Undefined"
      ELSE numId.datatype = "Double" /\ isnan(numId.value)

====
